---- MODULE Spec2Model ----
(***************************************************************************)
(* A model of src/text.rs of brother-ql-rs: the auto-fit of a glyph run    *)
(* (ResizedText::create), the composition of the label canvas              *)
(* (TextRasterizer::rasterize) and the encoding of the canvas into the     *)
(* printer's 90-byte raster lines (image_to_raster_lines).                 *)
(***************************************************************************)
EXTENDS Integers, Sequences, FiniteSets, TLC

VARIABLES
    pc,         \* position of the running call: "encode", "done", "panic"
    image,      \* the GrayImage: [w, h, buf], buf the row-major Vec<u8> (by rows)
    width_arg,  \* the `width` argument of image_to_raster_lines
    lines,      \* the Vec<[u8; 90]> returned by image_to_raster_lines
    panic,      \* the message of the panic that ended the call, "" when none
    font,       \* the loaded Font
    fit,        \* the calls of ResizedText::create: for each, its arguments,
                \* its font_size, and the ResizedText it returned
    rasterizer, \* the TextRasterizer: [label, second_row_image]
    args,       \* rasterize's [text, secondary_text, font_scale, invert]
    canvas,     \* rasterize's [length, width, secondary_width]
    overlay,    \* rasterize's overlay: [new_width, new_height, limit, x, y]
    debug_assertions    \* cfg!(debug_assertions): the build

encoder_vars == <<image, width_arg, lines>>
raster_vars == <<rasterizer, args, canvas, overlay, debug_assertions>>
vars == <<pc, image, width_arg, lines, panic, font, fit, rasterizer, args,
          canvas, overlay, debug_assertions>>

(***************************************************************************)
(* Bounds of the model.                                                    *)
(***************************************************************************)
MaxCols == 2
MaxTextLen == 2         \* glyphs of a text
MaxWidth == 5           \* max_width of a direct call of ResizedText::create
MaxFontSizeHalves == 6  \* max_font_size of a direct call, in halves of a pixel
MaxBelowZero == 2       \* the sizes below zero the model follows the loop to
MaxLength == 12         \* the printable length of a die-cut label, in pixels

(***************************************************************************)
(* Program constants.                                                      *)
(***************************************************************************)
LineLen == 90           \* [0; 90]
HalfLuma == 127         \* 0xFF / 2

Pow2(n) == 2 ^ n

\* bit `i` of the byte `b`
Bit(b, i) == (b \div Pow2(i)) % 2

\* b | (value << i) on u8, for value in {0, 1} and 0 <= i <= 7
OrShl(b, value, i) == IF value = 1 /\ Bit(b, i) = 0 THEN b + Pow2(i) ELSE b

(***************************************************************************)
(* image::GrayImage                                                        *)
(***************************************************************************)
\* ImageBuffer::len(): the number of subpixels of the buffer
ImageLen(img) == img.w * img.h

InBounds(img, x, y) == x >= 0 /\ x < img.w /\ y >= 0 /\ y < img.h

\* ImageBuffer::get_pixel(x, y), which panics out of bounds: the buffer is in
\* row-major order, kept here as the sequence of its rows (indexed from 1)
GetPixel(img, x, y) == img.buf[y + 1][x + 1]

\* the function f on 1 .. n as a sequence
AsSeq(f, n) == SubSeq(f, 1, n)

\* the buffer of w by h pixels whose pixel (x, y) is p[x, y]
Pixels(w, h, p) ==
    AsSeq([r \in 1 .. h |-> AsSeq([c \in 1 .. w |-> p[c - 1, r - 1]], w)], h)

(***************************************************************************)
(* image_to_raster_lines.  A loop state is [line, line_byte,               *)
(* line_bit_index, panic]; panic is "" until the iteration panics, then    *)
(* the panic's message.                                                    *)
(***************************************************************************)
NoPanic == ""
GetPixelPanic == "Image index out of bounds"
IndexPanic == "index out of bounds: the len is 90"
DivideByZeroPanic == "attempt to divide by zero"

\* PackPixel with the comparison of line 113 as `>=`
PackPixelAt127(img, c, st, r) ==
    IF ~InBounds(img, 0, 0) \/ ~InBounds(img, c, r)
    THEN [st EXCEPT !.panic = GetPixelPanic]
    ELSE IF st.line_byte >= LineLen
    THEN [st EXCEPT !.panic = IndexPanic]
    ELSE [st EXCEPT !.line[st.line_byte] =
                        OrShl(@, IF GetPixel(img, c, r) >= HalfLuma THEN 0 ELSE 1,
                              st.line_bit_index)]

\* lines 111-114: the pixel read, its value, line[line_byte] |= value << bit
PackPixel(img, c, st, r) ==
    IF ~InBounds(img, 0, 0) \/ ~InBounds(img, c, r)
    THEN [st EXCEPT !.panic = GetPixelPanic]
    ELSE IF st.line_byte >= LineLen
    THEN [st EXCEPT !.panic = IndexPanic]
    ELSE [st EXCEPT !.line[st.line_byte] =
                        OrShl(@, IF GetPixel(img, c, r) > HalfLuma THEN 0 ELSE 1,
                              st.line_bit_index)]

\* lines 106-110: the bit index counts backwards, and wraps into the next byte
AdvanceBit(st) ==
    IF st.line_bit_index - 1 < 0
    THEN [st EXCEPT !.line_byte = @ + 1, !.line_bit_index = @ - 1 + 8]
    ELSE [st EXCEPT !.line_bit_index = @ - 1]

\* the body of the loop over the rows r of column c (lines 106-114)
RowStep(img, c, st, r) ==
    IF st.panic # NoPanic THEN st ELSE PackPixel(img, c, AdvanceBit(st), r)

\* the iterations lo .. hi-1 of the loop `for r in 0..line_count`, in order
RECURSIVE RowLoop(_, _, _, _, _)
RowLoop(img, c, st, lo, hi) ==
    IF lo >= hi THEN st
    ELSE IF hi = lo + 1 THEN RowStep(img, c, st, lo)
    ELSE LET mid == (lo + hi) \div 2
             head == RowLoop(img, c, st, lo, mid)
         IN  IF head.panic # NoPanic THEN head
             ELSE RowLoop(img, c, head, mid, hi)

\* one iteration of `for c in 0..width`: the line of column c (lines 100-115)
ColumnLine(img, c, line_count) ==
    RowLoop(img, c,
            [line |-> [i \in 0 .. LineLen - 1 |-> 0], line_byte |-> 1,
             line_bit_index |-> 3, panic |-> NoPanic],
            0, line_count)

\* CollectLines with the lines in the reverse of the column order
CollectLinesReversed(cols) ==
    IF \E c \in 1 .. Len(cols) : cols[c].panic # NoPanic
    THEN [panic |-> IndexPanic, lines |-> <<>>]
    ELSE [panic |-> NoPanic,
          lines |-> AsSeq([c \in 1 .. Len(cols) |-> cols[Len(cols) + 1 - c].line],
                          Len(cols))]

\* the lines pushed by the loop `for c in 0..width`, up to the first panic
CollectLines(cols) ==
    IF \E c \in 1 .. Len(cols) : cols[c].panic # NoPanic
    THEN [panic |-> cols[CHOOSE c \in 1 .. Len(cols) :
                             /\ cols[c].panic # NoPanic
                             /\ \A d \in 1 .. c - 1 : cols[d].panic = NoPanic].panic,
          lines |-> <<>>]
    ELSE [panic |-> NoPanic,
          lines |-> AsSeq([c \in 1 .. Len(cols) |-> cols[c].line], Len(cols))]

\* image_to_raster_lines(image, width): [panic, lines]
ImageToRasterLines(img, width) ==
    IF width = 0 THEN [panic |-> DivideByZeroPanic, lines |-> <<>>]
    ELSE CollectLines(AsSeq([c \in 1 .. width |->
                                ColumnLine(img, c - 1, ImageLen(img) \div width)],
                            width))

(***************************************************************************)
(* rusttype, as far as src/text.rs uses it.  A font is [adv, asc, desc]:   *)
(* at scale 1 every glyph advances the caret by adv pixels and its outline *)
(* spans the advance, from the ascent asc down to the baseline; desc is    *)
(* the descent below the baseline.  The glyph " " has no outline, hence no *)
(* pixel bounding box.  A text is a sequence of glyphs.  An Option<Rect>   *)
(* is [some, min, max], a None having some = FALSE.                        *)
(***************************************************************************)
Origin == [x |-> 0, y |-> 0]
NoRect == [some |-> FALSE, min |-> Origin, max |-> Origin]
NoFont == [adv |-> 0, asc |-> 0, desc |-> 0]
Fonts == {[adv |-> 1, asc |-> 1, desc |-> 0], [adv |-> 2, asc |-> 1, desc |-> 1]}
GlyphChars == {"x", " "}
Texts == UNION {[1 .. n -> GlyphChars] : n \in 0 .. MaxTextLen}

\* font.v_metrics(Scale::uniform(font_size))
VMetrics(f, font_size) ==
    [ascent |-> f.asc * font_size, descent |-> -(f.desc * font_size)]

\* font.layout(text, scale, Point {x: 0.0, y: v_metrics.ascent}).collect():
\* the positioned glyphs, each with its pixel_bounding_box()
Layout(f, text, font_size) ==
    AsSeq([i \in 1 .. Len(text) |->
              IF text[i] = " " THEN NoRect
              ELSE [some |-> TRUE,
                    min |-> [x |-> (i - 1) * f.adv * font_size,
                             y |-> VMetrics(f, font_size).ascent
                                      - f.asc * font_size],
                    max |-> [x |-> i * f.adv * font_size,
                             y |-> VMetrics(f, font_size).ascent]]],
          Len(text))

\* A u32 is [hi, lo], its two 16-bit halves: the value hi * 2^16 + lo.
Half == 2 ^ 16

\* `as u32` of an i32: the value modulo 2^32
AsU32(n) == [hi |-> (n \div Half) % Half, lo |-> n % Half]

\* a < b on u32
LessU32(a, b) == a.hi < b.hi \/ (a.hi = b.hi /\ a.lo < b.lo)

\* `as i32` of a u32
AsI32(a) == IF a.hi < Half \div 2 THEN a.hi * Half + a.lo
            ELSE (a.hi - Half) * Half + a.lo

\* the smallest integer >= n / 64, for n >= 0: f32::ceil of a size in 64ths
Ceil64(n) == (n + 63) \div 64

UnwrapPanic == "called Option::unwrap() on a None value"

\* calc_text_width(glyphs): [panic, width]
CalcTextWidth(glyphs) ==
    IF Len(glyphs) = 0 \/ ~glyphs[1].some \/ ~glyphs[Len(glyphs)].some
    THEN [panic |-> UnwrapPanic, width |-> AsU32(0)]
    ELSE [panic |-> NoPanic,
          width |-> AsU32(glyphs[Len(glyphs)].max.x - glyphs[1].min.x)]

(***************************************************************************)
(* ResizedText::create.  A call is [st, text, max_width, max_font_size,    *)
(* font_size, rendered_size, glyphs]: st is "idle" before the call, "loop" *)
(* while it runs, "returned" or "panic" after it; max_font_size is in      *)
(* 64ths of a pixel, rendered_size an XY<u32>.                             *)
(***************************************************************************)
Calls == {1, 2}

IdleCall ==
    [st |-> "idle", text |-> <<>>, max_width |-> 0, max_font_size |-> 0,
     font_size |-> 0, rendered_size |-> [x |-> AsU32(0), y |-> AsU32(0)],
     glyphs |-> <<>>]

\* line 29: the call's entry
CreateCall(text, max_width, max_font_size) ==
    [st |-> "loop", text |-> text, max_width |-> max_width,
     max_font_size |-> max_font_size, font_size |-> Ceil64(max_font_size),
     rendered_size |-> [x |-> AsU32(0), y |-> AsU32(0)], glyphs |-> <<>>]

\* the comparison of line 47 as `<=`
FitsOrEqual(width, max_width) == ~LessU32(AsU32(max_width), width)

\* the comparison of line 47 turned around
FitsInverted(width, max_width) == LessU32(AsU32(max_width), width)

\* line 47: the run fits
Fits(width, max_width) == LessU32(width, AsU32(max_width))

\* line 48: (v_metrics.ascent - v_metrics.descent).ceil() as u32, which
\* saturates at 0
RenderedHeight(f, font_size) ==
    IF VMetrics(f, font_size).ascent - VMetrics(f, font_size).descent < 0
    THEN AsU32(0)
    ELSE AsU32(VMetrics(f, font_size).ascent - VMetrics(f, font_size).descent)

\* lines 33-55: one iteration of the loop of the call c
LoopIteration(f, c) ==
    LET glyphs == Layout(f, c.text, c.font_size)
        w == CalcTextWidth(glyphs)
    IN  IF w.panic # NoPanic THEN [c EXCEPT !.st = "panic"]
        ELSE IF Fits(w.width, c.max_width)
        THEN [c EXCEPT !.st = "returned",
                       !.rendered_size = [x |-> w.width,
                                          y |-> RenderedHeight(f, c.font_size)],
                       !.glyphs = glyphs]
        ELSE [c EXCEPT !.font_size = @ - 1]

NoImage == [w |-> 0, h |-> 0, buf |-> <<>>]

(***************************************************************************)
(* TextRasterizer.  A Label is [tape_size, dots_printable, right_margin],  *)
(* the pairs as sequences (tape_size.1 is tape_size[2]); an                *)
(* Option<PathBuf> of an overlay is [some, w, h, luma]: the size of the    *)
(* image at the path, and its luma, the same at every pixel; an            *)
(* Option<&str> is [some, text]; font_scale is in 64ths.                   *)
(***************************************************************************)
NoLabel == [tape_size |-> <<0, 0>>, dots_printable |-> <<0, 0>>, right_margin |-> 0]
NoPath == [some |-> FALSE, w |-> 0, h |-> 0, luma |-> 0]
NoText == [some |-> FALSE, text |-> <<>>]
NoOverlay == [new_width |-> 0, new_height |-> 0, limit |-> AsU32(0),
              x |-> AsU32(0), y |-> 0]

\* no call of rasterize
NoRasterizer ==
    /\ rasterizer = [label |-> NoLabel, second_row_image |-> NoPath]
    /\ args = [text |-> <<>>, secondary_text |-> NoText, font_scale |-> 0,
               invert |-> FALSE]
    /\ canvas = [length |-> 0, width |-> 0, secondary_width |-> 0]
    /\ overlay = NoOverlay
    /\ debug_assertions = FALSE

\* the panic of a call of create ends rasterize, not another call of create
FitStep(i) ==
    /\ fit[i].st = "loop"
    /\ fit[i].font_size > -MaxBelowZero
    /\ fit' = [fit EXCEPT ![i] = LoopIteration(font, fit[i])]
    /\ IF fit'[i].st = "panic"
       THEN /\ panic' = UnwrapPanic
            /\ pc' = IF pc = "create" THEN pc ELSE "panic"
       ELSE UNCHANGED <<pc, panic>>
    /\ UNCHANGED <<encoder_vars, font, raster_vars>>

\* two calls of create, on the same font, text and max_font_size
InitFit ==
    /\ pc = "create"
    /\ image = NoImage /\ width_arg = 0 /\ lines = <<>> /\ panic = NoPanic
    /\ NoRasterizer
    /\ font \in Fonts
    /\ \E text \in Texts, h \in 1 .. MaxFontSizeHalves,
          m1 \in 0 .. MaxWidth, m2 \in 0 .. MaxWidth :
          /\ m1 <= m2
          /\ fit = [i \in Calls |->
                       CreateCall(text, IF i = 1 THEN m1 ELSE m2, 32 * h)]

NextFit == \E i \in Calls : FitStep(i)

SpecFit == InitFit /\ [][NextFit]_vars

(***************************************************************************)
(* The canvases handed to image_to_raster_lines.                           *)
(***************************************************************************)
RowCounts == {0, 1, 2, 3, 4, 11, 12, 706, 707, 708, 709}
Lumas == <<0, 127, 128, 255>>
Patterns == {"white", "black", "rows", "cols", "mix"}

PatternPixel(p, x, y) ==
    CASE p = "white" -> 255
      [] p = "black" -> 0
      [] p = "rows"  -> Lumas[(y % 4) + 1]
      [] p = "cols"  -> Lumas[((x + 1) % 4) + 1]
      [] OTHER       -> Lumas[((x + 3 * y + (y \div 8)) % 4) + 1]

NewImage(w, h, p) ==
    [w |-> w, h |-> h,
     buf |-> Pixels(w, h, [x \in 0 .. w - 1, y \in 0 .. h - 1 |->
                              PatternPixel(p, x, y)])]

InitEncode ==
    /\ pc = "encode"
    /\ \E w \in 1 .. MaxCols, h \in RowCounts, p \in Patterns :
          image = NewImage(w, h, p)
    /\ width_arg \in 0 .. MaxCols + 1
    /\ lines = <<>>
    /\ panic = NoPanic
    /\ font = NoFont
    /\ fit = [i \in Calls |-> IdleCall]
    /\ NoRasterizer

\* what a call of image_to_raster_lines leaves: its lines, or its panic
Returned(res) ==
    /\ pc' = IF res.panic # NoPanic THEN "panic" ELSE "done"
    /\ lines' = res.lines
    /\ panic' = res.panic

Encode ==
    /\ pc = "encode"
    /\ Returned(ImageToRasterLines(image, width_arg))
    /\ UNCHANGED <<image, width_arg, font, fit, raster_vars>>

NextEncode == Encode

SpecEncode == InitEncode /\ [][NextEncode]_vars

(***************************************************************************)
(* TextRasterizer::rasterize.                                              *)
(***************************************************************************)
ContinuousLength == 750     \* let mut length = 750
TwelveMmExtra == 25         \* width += 25
SecondRowWidth == 170       \* secondary_width = 170
TopLabelExtra == 15         \* ... + 15 of top_label_size
TopMargin == 15             \* let top_margin = 15
PrimarySize == 90           \* 90.0 * font_scale
SecondarySize == 35         \* 35.0 * font_scale
SingleSize == 125           \* 125.0 * font_scale
PrimaryNudge == 25          \* ... - 25 of primary_offset.y
SecondaryNudge == 20        \* ... - 20 of secondary_offset.y
SingleNudge == 5            \* ... - 5 of offset.x

PutPixelPanic == "Image index out of bounds (put_pixel)"
OverflowPanic == "attempt to subtract with overflow"

\* CanvasGeometry with the second row reserved on every continuous tape
CanvasGeometryAnyTape(label, second_row_image) ==
    IF label.tape_size[2] = 0
    THEN [length |-> ContinuousLength,
          width |-> label.dots_printable[1] + label.right_margin
                       + (IF label.tape_size[1] = 12 THEN TwelveMmExtra ELSE 0),
          secondary_width |-> IF second_row_image.some THEN SecondRowWidth ELSE 0]
    ELSE [length |-> label.dots_printable[2],
          width |-> label.dots_printable[1] + label.right_margin,
          secondary_width |-> 0]

\* lines 158-178: length, width and secondary_width
CanvasGeometry(label, second_row_image) ==
    IF label.tape_size[2] = 0
    THEN [length |-> ContinuousLength,
          width |-> label.dots_printable[1] + label.right_margin
                       + (IF label.tape_size[1] = 12 THEN TwelveMmExtra ELSE 0),
          secondary_width |-> IF label.tape_size[1] = 12 /\ second_row_image.some
                              THEN SecondRowWidth ELSE 0]
    ELSE [length |-> label.dots_printable[2],
          width |-> label.dots_printable[1] + label.right_margin,
          secondary_width |-> 0]

\* lines 184-185
TopLabelSize(label) ==
    label.dots_printable[1] + label.right_margin + TopLabelExtra

\* BackgroundPixel with the comparison of line 186 as `>=`
BackgroundPixelFromSplit(label, invert, y) ==
    IF invert THEN (IF y >= TopLabelSize(label) THEN 255 ELSE 0) ELSE 255

\* lines 183-193: the background of a pixel of row y
BackgroundPixel(label, invert, y) ==
    IF invert THEN (IF y > TopLabelSize(label) THEN 255 ELSE 0) ELSE 255

\* lines 180-194: DynamicImage::new_luma8(w, h), then its background
FillBackground(w, h, label, invert) ==
    [w |-> w, h |-> h,
     buf |-> Pixels(w, h, [x \in 0 .. w - 1, y \in 0 .. h - 1 |->
                              BackgroundPixel(label, invert, y)])]

\* a / b on i32, b > 0: the quotient truncated toward zero
DivI32(a, b) == IF a >= 0 THEN a \div b ELSE -((-a) \div b)

\* lines 202-205: primary_offset
PrimaryOffset(cv, primary) ==
    [x |-> DivI32(cv.length, 2) - DivI32(AsI32(primary.rendered_size.x), 2),
     y |-> DivI32(cv.width, 2) - DivI32(AsI32(primary.rendered_size.y), 2)
              - PrimaryNudge]

\* lines 206-209: secondary_offset
SecondaryOffset(cv, secondary) ==
    [x |-> DivI32(cv.length, 2) - DivI32(AsI32(secondary.rendered_size.x), 2),
     y |-> DivI32(cv.width, 1) - DivI32(AsI32(secondary.rendered_size.y), 2)
              - SecondaryNudge]

\* lines 216-219: offset
SingleOffset(cv, primary) ==
    [x |-> DivI32(cv.length, 2) - DivI32(AsI32(primary.rendered_size.x), 2)
              - SingleNudge,
     y |-> DivI32(cv.width, 2) - DivI32(AsI32(primary.rendered_size.y), 2)]

\* glyph.draw calls its closure on every pixel of the bounding box; here the
\* coverage v of every pixel of a glyph is 1.0
GlyphColor(invert) == IF invert THEN 255 ELSE 255 - 255

\* lines 83-84: pixel (x, y) is one that the draw of glyph g puts
GlyphPuts(g, offset, x, y) ==
    /\ g.some
    /\ g.min.x + offset.x <= x /\ x < g.max.x + offset.x
    /\ g.min.y + offset.y <= y /\ y < g.max.y + offset.y

\* image.put_pixel panics out of bounds: some pixel of glyph g is outside img
GlyphOutside(img, g, offset) ==
    /\ g.some /\ g.min.x < g.max.x /\ g.min.y < g.max.y
    /\ \/ g.min.x + offset.x < 0 \/ g.max.x + offset.x > img.w
       \/ g.min.y + offset.y < 0 \/ g.max.y + offset.y > img.h

\* draw_glyphs(image, glyphs, offset, invert): [panic, image]
DrawGlyphs(img, glyphs, offset, invert) ==
    IF \E k \in 1 .. Len(glyphs) : GlyphOutside(img, glyphs[k], offset)
    THEN [panic |-> PutPixelPanic, image |-> img]
    ELSE [panic |-> NoPanic,
          image |-> [img EXCEPT !.buf =
              Pixels(img.w, img.h,
                     [x \in 0 .. img.w - 1, y \in 0 .. img.h - 1 |->
                        IF \E k \in 1 .. Len(glyphs) :
                              GlyphPuts(glyphs[k], offset, x, y)
                        THEN GlyphColor(invert) ELSE GetPixel(img, x, y)])]]

\* lines 196-223, after the calls of create: the glyphs drawn
DrawTexts(img, cv, with_secondary, primary, secondary, invert) ==
    IF ~with_secondary
    THEN DrawGlyphs(img, primary.glyphs, SingleOffset(cv, primary), invert)
    ELSE IF DrawGlyphs(img, primary.glyphs, PrimaryOffset(cv, primary),
                       invert).panic # NoPanic
    THEN [panic |-> PutPixelPanic, image |-> img]
    ELSE DrawGlyphs(DrawGlyphs(img, primary.glyphs, PrimaryOffset(cv, primary),
                               invert).image,
                    secondary.glyphs, SecondaryOffset(cv, secondary), invert)

\* a - b on u32: [overflow, value], the value wrapped
SubU32(a, b) == [overflow |-> a < b, value |-> AsU32(a - b)]

\* a / 2 on u32
HalfU32(a) == [hi |-> a.hi \div 2, lo |-> (a.lo + (a.hi % 2) * Half) \div 2]

\* lines 231-232: new_width and new_height before the limit; the ratio is w / h
\* of the image at the path
OverlayFullSize(path, length) ==
    [new_width |-> length, new_height |-> (length * path.h) \div path.w]

\* lines 233-236, given the limit secondary_width - top_margin, a u32 (which
\* is the height only when it did not wrap)
OverlaySize(path, length, limit) ==
    IF LessU32(limit, AsU32(OverlayFullSize(path, length).new_height))
    THEN [new_width |-> (AsI32(limit) * path.w) \div path.h,
          new_height |-> AsI32(limit)]
    ELSE OverlayFullSize(path, length)

\* image::imageops::overlay(image, resized, x, y): `resized`, new_width by
\* new_height, put over the canvas at (x, y) and cropped to the canvas
PasteOverlay(img, ov, luma) ==
    [img EXCEPT !.buf =
        Pixels(img.w, img.h,
               [x \in 0 .. img.w - 1, y \in 0 .. img.h - 1 |->
                  IF /\ ov.x.hi = 0
                     /\ ov.x.lo <= x /\ x < ov.x.lo + ov.new_width
                     /\ ov.y <= y /\ y < ov.y + ov.new_height
                  THEN luma ELSE GetPixel(img, x, y)])]

\* lines 228-243: [panic, overlay]; a subtraction that overflows panics in a
\* build with debug assertions and wraps in one without
ComputeOverlay(path, cv, debug) ==
    IF debug /\ SubU32(cv.secondary_width, TopMargin).overflow
    THEN [panic |-> OverflowPanic, overlay |-> NoOverlay]
    ELSE LET limit == SubU32(cv.secondary_width, TopMargin).value
             size == OverlaySize(path, cv.length, limit)
         IN  IF debug /\ SubU32(cv.length, size.new_width).overflow
             THEN [panic |-> OverflowPanic, overlay |-> NoOverlay]
             ELSE [panic |-> NoPanic,
                   overlay |-> [new_width |-> size.new_width,
                                new_height |-> size.new_height,
                                limit |-> limit,
                                x |-> HalfU32(SubU32(cv.length,
                                                     size.new_width).value),
                                y |-> cv.width]]

\* lines 155-214: the canvas, its background, and the entry of the first call
\* of create
Compose ==
    /\ pc = "rasterize"
    /\ canvas' = CanvasGeometry(rasterizer.label, rasterizer.second_row_image)
    /\ image' = FillBackground(canvas'.length,
                               canvas'.width + canvas'.secondary_width,
                               rasterizer.label, args.invert)
    /\ fit' = [fit EXCEPT ![1] =
                  CreateCall(args.text, canvas'.length,
                             IF args.secondary_text.some
                             THEN PrimarySize * args.font_scale
                             ELSE SingleSize * args.font_scale)]
    /\ pc' = "primary"
    /\ UNCHANGED <<width_arg, lines, panic, font, rasterizer, args, overlay,
                   debug_assertions>>

\* lines 199-200: the call of create for the secondary text
CreateSecondary ==
    /\ pc = "primary" /\ fit[1].st = "returned" /\ args.secondary_text.some
    /\ fit' = [fit EXCEPT ![2] =
                  CreateCall(args.secondary_text.text, canvas.length,
                             SecondarySize * args.font_scale)]
    /\ pc' = "secondary"
    /\ UNCHANGED <<encoder_vars, panic, font, raster_vars>>

\* lines 202-222: the offsets, and draw_glyphs
DrawText ==
    /\ \/ pc = "primary" /\ fit[1].st = "returned" /\ ~args.secondary_text.some
       \/ pc = "secondary" /\ fit[2].st = "returned"
    /\ LET drawn == DrawTexts(image, canvas, args.secondary_text.some,
                              fit[1], fit[2], args.invert)
       IN  /\ image' = drawn.image
           /\ panic' = drawn.panic
           /\ pc' = IF drawn.panic # NoPanic THEN "panic" ELSE "overlay"
    /\ UNCHANGED <<width_arg, lines, font, fit, raster_vars>>

\* lines 225-250: the overlay, and the entry of image_to_raster_lines
Overlay ==
    /\ pc = "overlay"
    /\ IF ~rasterizer.second_row_image.some
       THEN /\ pc' = "encode"
            /\ width_arg' = canvas.length
            /\ UNCHANGED <<image, panic, overlay>>
       ELSE LET res == ComputeOverlay(rasterizer.second_row_image, canvas,
                                      debug_assertions)
            IN  /\ overlay' = res.overlay
                /\ panic' = res.panic
                /\ IF res.panic # NoPanic
                   THEN pc' = "panic" /\ UNCHANGED <<image, width_arg>>
                   ELSE /\ pc' = "encode"
                        /\ width_arg' = canvas.length
                        /\ image' = PasteOverlay(image, res.overlay,
                                                 rasterizer.second_row_image.luma)
    /\ UNCHANGED <<lines, font, fit, rasterizer, args, canvas, debug_assertions>>

(***************************************************************************)
(* The calls of rasterize.                                                 *)
(***************************************************************************)
Continuous12 ==
    [tape_size |-> <<12, 0>>, dots_printable |-> <<1, 0>>, right_margin |-> 0]
Continuous62 ==
    [tape_size |-> <<62, 0>>, dots_printable |-> <<2, 0>>, right_margin |-> 1]
DieCut ==
    {[tape_size |-> <<t, 30>>, dots_printable |-> <<50, l>>, right_margin |-> 2] :
        t \in {12, 29}, l \in MaxLength - 1 .. MaxLength}
Paths ==
    {NoPath} \cup {[some |-> TRUE, w |-> sz[1], h |-> sz[2], luma |-> 100] :
                      sz \in {<<5, 1>>, <<1, 1>>}}
SecondaryTexts ==
    {NoText, [some |-> TRUE, text |-> <<>>], [some |-> TRUE, text |-> <<"x">>]}

\* the 750 pixels long canvases of continuous tape are composed for one text,
\* font and font_scale; those of die-cut labels for all of them
InitRaster ==
    /\ pc = "rasterize"
    /\ image = NoImage /\ width_arg = 0 /\ lines = <<>> /\ panic = NoPanic
    /\ fit = [i \in Calls |-> IdleCall]
    /\ canvas = [length |-> 0, width |-> 0, secondary_width |-> 0]
    /\ overlay = NoOverlay
    /\ \E label \in {Continuous12, Continuous62} \cup DieCut, path \in Paths :
          rasterizer = [label |-> label, second_row_image |-> path]
    /\ font \in Fonts
    /\ \E text \in Texts, sec \in SecondaryTexts, scale \in {1, 4},
          invert \in BOOLEAN :
          args = [text |-> text, secondary_text |-> sec, font_scale |-> scale,
                  invert |-> invert]
    /\ debug_assertions \in BOOLEAN
    /\ rasterizer.label.tape_size[2] = 0 =>
          /\ font.adv = 1 /\ args.text = <<"x">> /\ ~args.secondary_text.some
          /\ args.font_scale = 1

NextRaster ==
    \/ Compose
    \/ \E i \in Calls : FitStep(i)
    \/ CreateSecondary
    \/ DrawText
    \/ Overlay
    \/ Encode

SpecRaster == InitRaster /\ [][NextRaster]_vars

(***************************************************************************)
(* The raster line format.                                                 *)
(***************************************************************************)
\* the byte and the bit of a record that row r is stored at
ByteOfRow(r) == IF r < 3 THEN 1 ELSE 2 + ((r - 3) \div 8)
BitOfRow(r) == IF r < 3 THEN 2 - r ELSE 7 - ((r - 3) % 8)

\* the call returned, and was given the canvas's own length as its width
EncodedCanvas == pc = "done" /\ width_arg = image.w

\* the canvas made of column x of img alone
ColumnImage(img, x) ==
    [w |-> 1, h |-> img.h,
     buf |-> Pixels(1, img.h, [c \in {0}, y \in 0 .. img.h - 1 |->
                                  GetPixel(img, x, y)])]

\* C1: in the record of every column c of a canvas of R <= 707 rows, row r < 3
\* is bit 2 - r of byte 1, row r >= 3 is bit 7 - ((r - 3) mod 8) of byte
\* 2 + ((r - 3) div 8), the bit is 1 exactly when the pixel's luma is <= 127, and
\* every other bit of the record is 0.
C1_BitLayout ==
    (EncodedCanvas /\ image.h <= 707) =>
        \A c \in 0 .. image.w - 1 :
            /\ \A r \in 0 .. image.h - 1 :
                  Bit(lines[c + 1][ByteOfRow(r)], BitOfRow(r))
                     = (IF GetPixel(image, c, r) <= 127 THEN 1 ELSE 0)
            /\ \A b \in 0 .. LineLen - 1, i \in 0 .. 7 :
                  (\A r \in 0 .. image.h - 1 :
                       ByteOfRow(r) # b \/ BitOfRow(r) # i)
                     => Bit(lines[c + 1][b], i) = 0

\* a canvas of 707 rows whose encoding used the three bits of byte 1 and byte 89
C1_Witness ==
    /\ EncodedCanvas /\ image.h = 707 /\ image.w = 2
    /\ lines[2][1] \notin {0, 7}
    /\ lines[2][89] \notin {0, 255}

\* C2: the call returns exactly `width` records of 90 bytes each, byte 0 zero,
\* and record i is the encoding of canvas column i alone, in column order.
C2_RecordsInColumnOrder ==
    pc = "done" =>
        /\ Len(lines) = width_arg
        /\ \A i \in 1 .. Len(lines) :
              DOMAIN lines[i] = 0 .. LineLen - 1 /\ lines[i][0] = 0
        /\ width_arg = image.w =>
              \A i \in 1 .. Len(lines) :
                  lines[i] = ImageToRasterLines(ColumnImage(image, i - 1), 1).lines[1]

\* two columns that differ were encoded into two records that differ
C2_Witness ==
    /\ EncodedCanvas /\ Len(lines) = 2 /\ image.h >= 3
    /\ lines[1] # lines[2]

\* C5: a canvas of 707 rows encodes; a canvas of 708 rows or more ends with a
\* capacity error returned as a value, never by indexing past the record.
C5_CapacityError ==
    (pc # "encode" /\ width_arg = image.w) =>
        /\ image.h <= 707 => pc = "done"
        /\ image.h >= 708 => (pc = "RasterCapacityExceeded" /\ panic = NoPanic)

(***************************************************************************)
(* The auto-fit.                                                           *)
(***************************************************************************)
\* the width of the text of call c at font size s, when it has one
RunWidth(c, s) == CalcTextWidth(Layout(font, c.text, s))

\* the run of call c at its font size spans exactly max_width
ExactlyMaxWidth(c) ==
    /\ RunWidth(c, c.font_size).panic = NoPanic
    /\ RunWidth(c, c.font_size).width = AsU32(c.max_width)

\* C3: a ResizedText that create returned is narrower than max_width,
\* strictly; a run exactly max_width wide is rejected, and the next iteration
\* runs at the font size less 1.
C3_StrictlyNarrower ==
    /\ [](\A i \in Calls :
            fit[i].st = "returned"
               => LessU32(fit[i].rendered_size.x, AsU32(fit[i].max_width)))
    /\ [][\A i \in Calls :
            (fit[i].st = "loop" /\ ExactlyMaxWidth(fit[i]) /\ fit'[i] # fit[i])
               => (fit'[i].st = "loop"
                   /\ fit'[i].font_size = fit[i].font_size - 1)]_vars

\* a call that returned after it rejected a run exactly max_width wide
C3_Witness ==
    \E i \in Calls :
        /\ fit[i].st = "returned"
        /\ fit[i].max_width > 0
        /\ RunWidth(fit[i], fit[i].font_size + 1).panic = NoPanic
        /\ RunWidth(fit[i], fit[i].font_size + 1).width = AsU32(fit[i].max_width)
        /\ fit[i].font_size + 1 <= Ceil64(fit[i].max_font_size)

\* C4: the loop ends with an AutoFitFailure when the font size reaches 0 without
\* a fit: it never runs at a size below 0, and never returns a size of 0 or less.
C4_BoundedSearch ==
    \A i \in Calls :
        /\ fit[i].st = "loop" => fit[i].font_size >= 0
        /\ fit[i].st = "returned" => fit[i].font_size > 0

\* C6: a call of create on an empty text ends with an EmptyTextError, a value,
\* and not with the panic of an unwrap of the missing first glyph.
C6_EmptyTextError ==
    \A i \in Calls :
        (fit[i].st \notin {"idle", "loop"} /\ fit[i].text = <<>>)
           => (fit[i].st = "EmptyTextError" /\ panic = NoPanic)

\* C9: of two calls on the same font, text and max_font_size that both return,
\* the one with the smaller max_width returns the smaller or the same font size.
C9_MonotoneInMaxWidth ==
    \A i, j \in Calls :
        (/\ fit[i].st = "returned" /\ fit[j].st = "returned"
         /\ fit[i].text = fit[j].text
         /\ fit[i].max_font_size = fit[j].max_font_size
         /\ fit[i].max_width <= fit[j].max_width)
           => fit[i].font_size <= fit[j].font_size

\* two calls that returned different font sizes for different widths
C9_Witness ==
    /\ fit[1].st = "returned" /\ fit[2].st = "returned"
    /\ fit[1].text = fit[2].text
    /\ fit[1].max_font_size = fit[2].max_font_size
    /\ fit[1].max_width < fit[2].max_width
    /\ fit[1].font_size < fit[2].font_size

(***************************************************************************)
(* The canvas.                                                             *)
(***************************************************************************)
IsContinuous == rasterizer.label.tape_size[2] = 0
Is12mm == rasterizer.label.tape_size[1] = 12
PrintableWidth == rasterizer.label.dots_printable[1]
RightMargin == rasterizer.label.right_margin

\* the background is filled, and nothing is drawn over it yet
BackgroundFilled == pc \in {"primary", "secondary"}

\* C7: after the background fill, with T = printable width + right margin + 15:
\* when invert is set every pixel of a row y <= T is 0 and every pixel of a row
\* y > T is 255; when it is not, every pixel is 255.
C7_BackgroundSplit ==
    BackgroundFilled =>
        \A x \in 0 .. image.w - 1, y \in 0 .. image.h - 1 :
            GetPixel(image, x, y) =
                (IF ~args.invert THEN 255
                 ELSE IF y <= PrintableWidth + RightMargin + 15 THEN 0 ELSE 255)

\* an inverted canvas with rows on both sides of the split
C7_Witness ==
    /\ BackgroundFilled /\ args.invert
    /\ image.h > PrintableWidth + RightMargin + 16
    /\ GetPixel(image, 0, PrintableWidth + RightMargin + 15) = 0
    /\ GetPixel(image, 0, PrintableWidth + RightMargin + 16) = 255

\* C8: the canvas is 750 long on continuous tape and the printable length long
\* on a die-cut label; it is printable width + right margin high, plus 25 on
\* continuous 12mm tape, plus 170 more on continuous 12mm tape with an overlay
\* image set, and in no other case.
C8_CanvasSize ==
    pc # "rasterize" =>
        /\ image.w = (IF IsContinuous THEN 750
                      ELSE rasterizer.label.dots_printable[2])
        /\ image.h = PrintableWidth + RightMargin
                        + (IF IsContinuous /\ Is12mm THEN 25 ELSE 0)
                        + (IF IsContinuous /\ Is12mm
                              /\ rasterizer.second_row_image.some
                           THEN 170 ELSE 0)

\* the canvas of continuous 12mm tape with an overlay image set
C8_Witness ==
    /\ pc = "primary" /\ IsContinuous /\ Is12mm /\ rasterizer.second_row_image.some
    /\ image.h = PrintableWidth + RightMargin + 195

\* rasterize went through its overlay of the image that is set
OverlayReached ==
    /\ rasterizer.second_row_image.some
    /\ pc \in {"encode", "done"} \/ (pc = "panic" /\ panic = OverflowPanic)

\* C10: with an overlay image set, on every label, the limit secondary_width - 15
\* does not underflow, the resized overlay is no longer than the canvas and no
\* higher than the limit, and its rows, from row `width` on, are rows of the
\* canvas.
C10_OverlayInsideCanvas ==
    OverlayReached =>
        /\ panic # OverflowPanic
        /\ canvas.secondary_width >= TopMargin
        /\ overlay.new_width <= canvas.length
        /\ overlay.new_height <= canvas.secondary_width - TopMargin
        /\ canvas.width < image.h
        /\ canvas.width + overlay.new_height <= image.h

====
